---- MODULE Spec2Model ----
(***************************************************************************)
(* parallel-claude: the worker registry (src/lib/workers.ts), the spawn    *)
(* and cleanup commands (src/commands/spawn.ts, cleanup.ts) and the part   *)
(* of the iTerm2 scripting they drive.                                     *)
(*                                                                         *)
(* A process is one invocation of the CLI.  Spec runs the invocations of   *)
(* process 1 one after the other (the single-operator use); the persisted  *)
(* state file, the worker directories and the terminal outlive a process,  *)
(* the module object DEFAULT_STATE does not.                               *)
(***************************************************************************)
EXTENDS Integers, Sequences, FiniteSets, TLC

\* ---------------------------------------------------------------- bounds
\* single-worker spawn attempts over the whole run (calls of nanoid)
MaxSpawns == 3
\* tasks given to one spawn invocation (-t a -t b ...)
MaxTasks == 2
\* how many of the 16 x 16 adjective-animal pairs the random draws reach
NumNames == 2
\* length of the varied start and end of a task text
MaxEdge == 2
\* spawns in all when two processes run side by side
MaxRaceSpawns == 2

\* ------------------------------------------------------------- constants
basePort == 3100
portIncrement == 10
\* for (let i = 0; i < 100; i++)
MaxAttempts == 100
\* .slice(0, 40)
slugLength == 40

\* delay 3 and delay 0.5 of the AppleScript, in tenths of a second
claudeStartDelay == 30

confirmDelay == 5

None == "undefined"
\* name of the marker session ("<bolt> parallel-claude" in the source)
MarkerName == "# parallel-claude"

Procs == {1, 2}

adjectives ==
    <<"swift", "brave", "calm", "bright", "bold", "keen", "wise", "quick",
      "sharp", "cool", "warm", "fair", "pure", "true", "kind", "proud">>

animals ==
    <<"fox", "owl", "eagle", "wolf", "bear", "hawk", "deer", "lion",
      "tiger", "raven", "falcon", "panther", "jaguar", "leopard", "lynx", "otter">>

VARIABLES
    stateFile,       \* CONFIG.stateFile: [exists, corrupt, data]
    DEFAULT_STATE,   \* per process: the module object DEFAULT_STATE
    dirs,            \* the directories that exist under CONFIG.workersDir
    iterm,           \* iTerm2: [windows, nextWindow, nextSession]
    nanoidCount,     \* ids drawn so far from nanoid
    pc,              \* per process: where the invocation stands
    loc,             \* per process: the locals of the command it runs
    out              \* per process: what its last invocation reported

vars == <<stateFile, DEFAULT_STATE, dirs, iterm, nanoidCount, pc, loc, out>>

\* ------------------------------------------------------------ data model
\* interface Worker (the fields the registry logic reads and writes)
undefinedWorker ==
    [id |-> None, name |-> None, branch |-> None, task |-> None,
     directory |-> None, port |-> 0, status |-> None, terminalTab |-> None]

\* export const DEFAULT_STATE
DefaultState == [workers |-> <<>>, nextPortOffset |-> 0, itermWindowId |-> None]

\* join(CONFIG.workersDir, workerName)
workerDir(workerName) == "workers/" \o workerName

SeqToSet(s) == {s[i] : i \in 1..Len(s)}

\* ------------------------------------------------------------- registry
\* What a registry call of process p sees and leaves: the state file and the
\* process's DEFAULT_STATE object.  Each call below maps one such store to the
\* store after it (and, where the function returns something, its result).
store(p) == [file |-> stateFile, def |-> DEFAULT_STATE[p]]

readable(s) == s.file.exists /\ ~s.file.corrupt

\* A JSON text is modelled by the object it spells out: a record of its
\* members.  JSON.stringify leaves out a property whose value is undefined (the
\* optional properties are the ones that can be), and a property the text does
\* not have reads as undefined after JSON.parse.
\* mutant: the session handle is not written
stringifyWorkerNoTab(w) ==
    [id |-> w.id, name |-> w.name, branch |-> w.branch, task |-> w.task,
     directory |-> w.directory, port |-> w.port, status |-> w.status]

stringifyWorker(w) ==
    IF w.terminalTab = None
    THEN [id |-> w.id, name |-> w.name, branch |-> w.branch, task |-> w.task,
          directory |-> w.directory, port |-> w.port, status |-> w.status]
    ELSE [id |-> w.id, name |-> w.name, branch |-> w.branch, task |-> w.task,
          directory |-> w.directory, port |-> w.port, status |-> w.status,
          terminalTab |-> w.terminalTab]

\* JSON.stringify(state, null, 2)
JSON_stringify(state) ==
    LET workers == [k \in 1..Len(state.workers) |-> stringifyWorker(state.workers[k])]
    IN IF state.itermWindowId = None
       THEN [workers |-> workers, nextPortOffset |-> state.nextPortOffset]
       ELSE [workers |-> workers, nextPortOffset |-> state.nextPortOffset,
             itermWindowId |-> state.itermWindowId]

parseWorker(o) ==
    [id |-> o.id, name |-> o.name, branch |-> o.branch, task |-> o.task,
     directory |-> o.directory, port |-> o.port, status |-> o.status,
     terminalTab |-> IF "terminalTab" \in DOMAIN o THEN o.terminalTab ELSE None]

\* JSON.parse(data)
JSON_parse(data) ==
    [workers |-> [k \in 1..Len(data.workers) |-> parseWorker(data.workers[k])],
     nextPortOffset |-> data.nextPortOffset,
     itermWindowId |-> IF "itermWindowId" \in DOMAIN data THEN data.itermWindowId ELSE None]

\* JSON.parse(readFileSync(...)), or { ...DEFAULT_STATE }: a shallow copy, whose
\* workers array is DEFAULT_STATE.workers itself
loadState(s) ==
    IF readable(s)
    THEN JSON_parse(s.file.data)
    ELSE [workers |-> s.def.workers,
          nextPortOffset |-> s.def.nextPortOffset,
          itermWindowId |-> None]

\* writeFileSync(CONFIG.stateFile, JSON.stringify(state, null, 2))
saveState(state) == [exists |-> TRUE, corrupt |-> FALSE, data |-> JSON_stringify(state)]

\* a mutation of state.workers reaches DEFAULT_STATE when the array is shared
written(s, state) ==
    [file |-> saveState(state),
     def  |-> IF readable(s) THEN s.def ELSE [s.def EXCEPT !.workers = state.workers]]

\* mutant: the increment of nextPortOffset is lost
addWorkerNoIncrement(s, worker) ==
    written(s, [loadState(s) EXCEPT !.workers = Append(@, worker)])

\* state.workers.push(worker); state.nextPortOffset++; saveState(state)
addWorker(s, worker) ==
    written(s, [loadState(s) EXCEPT !.workers = Append(@, worker),
                                    !.nextPortOffset = @ + 1])

\* mutant: only the name is compared
findIndexByName(workers, nameOrId) ==
    LET hits == {i \in 1..Len(workers) : workers[i].name = nameOrId}
    IN IF hits = {} THEN 0 ELSE CHOOSE i \in hits : \A j \in hits : i <= j

\* workers.findIndex(w => w.name === nameOrId || w.id === nameOrId); 0 for -1
findIndex(workers, nameOrId) ==
    LET hits == {i \in 1..Len(workers) :
                    workers[i].name = nameOrId \/ workers[i].id = nameOrId}
    IN IF hits = {} THEN 0 ELSE CHOOSE i \in hits : \A j \in hits : i <= j

\* mutant: workers.splice(index), which removes every record from index on
spliceToEnd(workers, index) == SubSeq(workers, 1, index - 1)

\* workers.splice(index, 1)
splice(workers, index) ==
    [i \in 1..(Len(workers) - 1) |-> IF i < index THEN workers[i] ELSE workers[i + 1]]

\* mutant: a removal gives the port number back
removeWorkerDecrement(s, nameOrId) ==
    LET state == loadState(s)
        index == findIndex(state.workers, nameOrId)
    IN IF index = 0
       THEN [file |-> s.file, def |-> s.def, ret |-> undefinedWorker]
       ELSE [file |-> saveState([state EXCEPT !.workers = splice(@, index),
                                              !.nextPortOffset = @ - 1]),
             def  |-> IF readable(s) THEN s.def
                      ELSE [s.def EXCEPT !.workers = splice(@, index)],
             ret  |-> state.workers[index]]

\* removeWorker: the store after it, and the record returned (ret)
removeWorker(s, nameOrId) ==
    LET state == loadState(s)
        index == findIndex(state.workers, nameOrId)
    IN IF index = 0
       THEN [file |-> s.file, def |-> s.def, ret |-> undefinedWorker]
       ELSE [file |-> saveState([state EXCEPT !.workers = splice(@, index)]),
             def  |-> IF readable(s) THEN s.def
                      ELSE [s.def EXCEPT !.workers = splice(@, index)],
             ret  |-> state.workers[index]]

\* state.workers.find(...)
getWorker(s, nameOrId) ==
    LET state == loadState(s)
        index == findIndex(state.workers, nameOrId)
    IN IF index = 0 THEN undefinedWorker ELSE state.workers[index]

getAllWorkers(s) == loadState(s).workers

\* mutant: a record that is not found is created
updateWorkerStatusOrCreate(s, nameOrId, status, terminalTab) ==
    LET state == loadState(s)
        index == findIndex(state.workers, nameOrId)
    IN IF index = 0
       THEN written(s, [state EXCEPT !.workers =
                           Append(@, [undefinedWorker EXCEPT !.name = nameOrId,
                                                             !.status = status,
                                                             !.terminalTab = terminalTab])])
       ELSE written(s, [state EXCEPT !.workers[index].status = status,
                                     !.workers[index].terminalTab = terminalTab])

\* mutant: the status is stored, the updates are dropped
updateWorkerStatusOnly(s, nameOrId, status, terminalTab) ==
    LET state == loadState(s)
        index == findIndex(state.workers, nameOrId)
    IN IF index = 0
       THEN [file |-> s.file, def |-> s.def]
       ELSE written(s, [state EXCEPT !.workers[index].status = status])

\* updateWorkerStatus(nameOrId, status, { terminalTab })
updateWorkerStatus(s, nameOrId, status, terminalTab) ==
    LET state == loadState(s)
        index == findIndex(state.workers, nameOrId)
    IN IF index = 0
       THEN [file |-> s.file, def |-> s.def]
       ELSE written(s, [state EXCEPT !.workers[index].status = status,
                                     !.workers[index].terminalTab = terminalTab])

\* mutant: the port is derived from the number of records
getNextPortByCount(s) == basePort + Len(loadState(s).workers) * portIncrement

getNextPort(s) == basePort + loadState(s).nextPortOffset * portIncrement

getItermWindowId(s) == loadState(s).itermWindowId

\* state.itermWindowId = windowId; saveState(state)
setItermWindowId(s, windowId) ==
    [file |-> saveState([loadState(s) EXCEPT !.itermWindowId = windowId]),
     def  |-> s.def]

\* delete state.itermWindowId; saveState(state)
clearItermWindowId(s) ==
    [file |-> saveState([loadState(s) EXCEPT !.itermWindowId = None]),
     def  |-> s.def]

\* the store of process p becomes s
Stored(p, s) ==
    /\ stateFile' = s.file
    /\ DEFAULT_STATE' = [DEFAULT_STATE EXCEPT ![p] = s.def]

\* ---------------------------------------------------------------- names
\* `${adj}-${animal}` for the k-th pair of random indices (adjective-major)
pairName(k) ==
    adjectives[(k \div Len(animals)) + 1] \o "-" \o animals[(k % Len(animals)) + 1]

\* the names one iteration of the loop can draw
draws == {pairName(k) : k \in 0..(NumNames - 1)}

\* mutant: after the last collision the name drawn last is returned
timestampNamesLastDraw == draws

\* `worker-${Date.now()}`: the clock differs from one spawn attempt to the next
timestampNames == {"worker-" \o ToString(nanoidCount + 1)}

\* mutant: the drawn name is returned without the existing.has(name) test
generateWorkerNameUnchecked(existingNames) == draws

\* Every value the function can return.  Iteration i is reached when the i
\* draws before it all collided; it returns any draw that is not taken.  The
\* timestamp name is returned when all MaxAttempts draws collided.
generateWorkerName(existingNames) ==
    LET collision == draws \cap existingNames # {}
        reached == {i \in 0..(MaxAttempts - 1) : i = 0 \/ collision}
    IN {name \in draws \ existingNames : reached # {}}
       \cup (IF MaxAttempts = 0 \/ collision THEN timestampNames ELSE {})

\* ---------------------------------------------------------- branch names
lowerCaseLetters == "abcdefghijklmnopqrstuvwxyz"

upperCaseLetters == "ABCDEFGHIJKLMNOPQRSTUVWXYZ"

digits == "0123456789"

charAt(str, i) == SubSeq(str, i, i)

charsOf(str) == {charAt(str, i) : i \in 1..Len(str)}

\* the characters of the class [a-z0-9]
alphanumerics == charsOf(lowerCaseLetters) \cup charsOf(digits)

\* c.toLowerCase() for one character
lowerCase(c) ==
    IF c \in charsOf(upperCaseLetters)
    THEN charAt(lowerCaseLetters,
                CHOOSE i \in 1..Len(upperCaseLetters) : charAt(upperCaseLetters, i) = c)
    ELSE c

RECURSIVE toLowerCase(_)
toLowerCase(str) ==
    IF str = "" THEN ""
    ELSE lowerCase(charAt(str, 1)) \o toLowerCase(SubSeq(str, 2, Len(str)))

\* str.replace(/[^a-z0-9]+/g, "-") from position i on: every maximal run of
\* other characters becomes one hyphen
RECURSIVE replaceRunsFrom(_, _)
replaceRunsFrom(str, i) ==
    IF i > Len(str) THEN ""
    ELSE IF charAt(str, i) \in alphanumerics
    THEN charAt(str, i) \o replaceRunsFrom(str, i + 1)
    ELSE IF i > 1 /\ charAt(str, i - 1) \notin alphanumerics
    THEN replaceRunsFrom(str, i + 1)
    ELSE "-" \o replaceRunsFrom(str, i + 1)

\* str.slice(0, end)
slice(str, end) == SubSeq(str, 1, IF Len(str) < end THEN Len(str) ELSE end)

\* mutant: the hyphens at the ends are kept
keepHyphens(str) == str

\* str.replace(/^-|-$/g, ""): a hyphen at the start and a hyphen at the end
\* of what is left are removed
trimHyphens(str) ==
    LET tail == IF Len(str) > 0 /\ charAt(str, 1) = "-"
                THEN SubSeq(str, 2, Len(str)) ELSE str
    IN IF Len(tail) > 0 /\ charAt(tail, Len(tail)) = "-"
       THEN SubSeq(tail, 1, Len(tail) - 1) ELSE tail

\* str.replace(/-/g, "")
RECURSIVE removeHyphens(_)
removeHyphens(str) ==
    IF str = "" THEN ""
    ELSE (IF charAt(str, 1) = "-" THEN "" ELSE charAt(str, 1))
         \o removeHyphens(SubSeq(str, 2, Len(str)))

\* new Date().toISOString(), for a reading of the clock
toISOString(now) ==
    IF now % 2 = 0 THEN "2025-01-09T08:15:00.000Z" ELSE "1999-12-31T23:59:59.999Z"

slug(task) == trimHyphens(slice(replaceRunsFrom(toLowerCase(task), 1), slugLength))

\* the clock is read later for a longer task and for a later attempt
generateBranchName(task, workerName) ==
    "feat/" \o slug(task) \o "-" \o workerName \o "-"
            \o removeHyphens(slice(toISOString(nanoidCount + Len(task)), 10))

\* ---------------------------------------------------------------- iTerm2
\* name of s starts with "<marker>"
startsWith(name, prefix) ==
    Len(name) >= Len(prefix) /\ SubSeq(name, 1, Len(prefix)) = prefix

hasMarker(w) ==
    \E k \in 1..Len(w.sessions) : startsWith(w.sessions[k].name, MarkerName)

\* repeat with w in windows ... return id of w; "" (null) when none carries the marker
findWorkersWindow ==
    LET hits == {k \in 1..Len(iterm.windows) : hasMarker(iterm.windows[k])}
    IN IF hits = {} THEN None
       ELSE iterm.windows[CHOOSE k \in hits : \A j \in hits : k <= j].id

session(n, name, text) == [id |-> "s" \o ToString(n), name |-> name, text |-> text]

\* one statement of the AppleScript: what it does, the text it carries (a name
\* or a line to write) and, for delay, its length in tenths of a second
statement(op, text, tenths) == [op |-> op, text |-> text, tenths |-> tenths]

\* mutant: the window is created and its first session is left unnamed
newWindowStatementsUnnamed == <<statement("create window", "", 0)>>

\* create window with default profile; the marker: set name to MarkerName (of
\* the current tab and) of its current session
newWindowStatements ==
    <<statement("create window", "", 0), statement("set name", MarkerName, 0)>>

\* mutant: the task is written first, the agent command after the delay
claudeStatementsTaskFirst(dir, claudeCommand, task) ==
    << statement("write text", task, 0),
       statement("delay", "", claudeStartDelay),
       statement("write text", "cd " \o dir \o " && " \o claudeCommand, 0),
       statement("delay", "", confirmDelay),
       statement("write text", "", 0) >>

\* write text "cd <dir> && <claude>"; delay 3; write text "<task>"; delay 0.5;
\* write text ""
claudeStatements(dir, claudeCommand, task) ==
    << statement("write text", "cd " \o dir \o " && " \o claudeCommand, 0),
       statement("delay", "", claudeStartDelay),
       statement("write text", task, 0),
       statement("delay", "", confirmDelay),
       statement("write text", "", 0) >>

\* the script openWorkerTab builds, one of its four texts: with or without a
\* dev pane, in the window found or in a new one
script(workerName, dir, devCommand, claudeCommand, task, existingWindowId) ==
    <<statement("activate", "", 0)>>
    \o (IF existingWindowId # None THEN <<>> ELSE newWindowStatements)
    \o <<statement("create tab", "", 0)>>
    \o (IF devCommand # None
        THEN << statement("set name", workerName \o " - dev", 0),
                statement("write text", "cd " \o dir \o " && " \o devCommand, 0),
                statement("split vertically", "", 0),
                statement("set name", workerName \o " - claude", 0) >>
        ELSE << statement("set name", workerName, 0) >>)
    \o claudeStatements(dir, claudeCommand, task)
    \o <<statement("return", "", 0)>>

\* iTerm2 runs the statements from the k-th on.  st.sessions are the sessions
\* the script has created so far, st.cur the one that is current, st.next the
\* number of the next session, st.elapsed the delays in tenths of a second.
RECURSIVE runStatements(_, _, _)
runStatements(statements, k, st) ==
    IF k > Len(statements) THEN st
    ELSE LET stmt == statements[k]
             created == [st EXCEPT !.sessions = Append(@, session(st.next, "", <<>>)),
                                   !.cur = Len(st.sessions) + 1,
                                   !.next = @ + 1]
         IN runStatements(statements, k + 1,
              CASE stmt.op \in {"create window", "create tab", "split vertically"} ->
                     created
                [] stmt.op = "set name" ->
                     [st EXCEPT !.sessions[st.cur].name = stmt.text]
                [] stmt.op = "write text" ->
                     [st EXCEPT !.sessions[st.cur].text = Append(@, stmt.text)]
                [] stmt.op = "delay" ->
                     [st EXCEPT !.elapsed = @ + stmt.tenths]
                [] OTHER -> st)

\* the effect of openWorkerTab when the script runs: iTerm2 after it, and the
\* string the script returns (id of targetWindow / id of newWindow)
openWorkerTab(workerName, dir, devCommand, claudeCommand, task, isFirstWorker) ==
    LET existingWindowId == IF ~isFirstWorker THEN findWorkersWindow ELSE None
        ran == runStatements(script(workerName, dir, devCommand, claudeCommand,
                                    task, existingWindowId),
                             1,
                             [sessions |-> <<>>, cur |-> 0,
                              next |-> iterm.nextSession, elapsed |-> 0])
    IN IF existingWindowId # None
       THEN LET k == CHOOSE k \in 1..Len(iterm.windows) :
                        iterm.windows[k].id = existingWindowId
            IN [iterm |-> [iterm EXCEPT !.windows[k].sessions = @ \o ran.sessions,
                                        !.nextSession = ran.next],
                created |-> FALSE,
                ret |-> existingWindowId]
       ELSE LET id == "w" \o ToString(iterm.nextWindow)
                win == [id |-> id, sessions |-> ran.sessions]
            IN [iterm |-> [windows |-> Append(iterm.windows, win),
                           nextWindow |-> iterm.nextWindow + 1,
                           nextSession |-> ran.next],
                created |-> TRUE,
                ret |-> id]

\* tell s to write text ...: every session whose id is sessionId receives the text
writeText(windows, sessionId, text) ==
    [k \in 1..Len(windows) |->
        [windows[k] EXCEPT !.sessions =
            [j \in 1..Len(@) |->
                IF @[j].id = sessionId
                THEN [@[j] EXCEPT !.text = Append(@, text)]
                ELSE @[j]]]]

\* iTerm2 after sendToItermSession(sessionId, command) ran
sendToItermSession(sessionId, command) ==
    [iterm EXCEPT !.windows = writeText(@, sessionId, command)]

\* the windows after closeItermTab(sessionId) ran: "exit" ends the shell of the
\* session whose id is sessionId, and a window left without sessions closes
closeItermTab(windows, sessionId) ==
    LET exited == [k \in 1..Len(windows) |->
                     [windows[k] EXCEPT !.sessions =
                        SelectSeq(@, LAMBDA x : x.id # sessionId)]]
    IN SelectSeq(exited, LAMBDA w : Len(w.sessions) > 0)

\* ------------------------------------------------------------- processes
idleLoc ==
    [cmd |-> "none", tasks |-> <<>>, i |-> 0, noDev |-> FALSE, optPort |-> 0,
     branchName |-> None,
     workerName |-> None, workerId |-> None, port |-> 0,
     isFirstWorker |-> FALSE, windowId |-> None,
     workers |-> <<>>, cleaned |-> 0, failed |-> 0]

\* what an invocation reports: its exit status, the worker cleanup names in
\* "Cleaned up ...", the names the dry run lists, the counts of cleanup --all
noOutput == [code |-> 0, name |-> None, listed |-> <<>>, cleaned |-> 0, failed |-> 0]

Init ==
    /\ stateFile = [exists |-> FALSE, corrupt |-> FALSE, data |-> JSON_stringify(DefaultState)]
    /\ DEFAULT_STATE = [p \in Procs |-> [workers |-> <<>>, nextPortOffset |-> 0]]
    /\ dirs = {}
    /\ iterm = [windows |-> <<>>, nextWindow |-> 1, nextSession |-> 1]
    /\ nanoidCount = 0
    /\ pc = [p \in Procs |-> "idle"]
    /\ loc = [p \in Procs |-> idleLoc]
    /\ out = [p \in Procs |-> noOutput]

\* the process ends (process.exit, or the command returns) with its report:
\* its memory is gone
Exit(p, report) ==
    /\ pc' = [pc EXCEPT ![p] = "exited"]
    /\ loc' = [loc EXCEPT ![p] = idleLoc]
    /\ DEFAULT_STATE' = [DEFAULT_STATE EXCEPT ![p] = [workers |-> <<>>, nextPortOffset |-> 0]]
    /\ out' = [out EXCEPT ![p] = report]

\* the operator has read the report and is back at the prompt
Prompt(p) ==
    /\ pc[p] = "exited"
    /\ pc' = [pc EXCEPT ![p] = "idle"]
    /\ out' = [out EXCEPT ![p] = noOutput]
    /\ UNCHANGED <<stateFile, DEFAULT_STATE, dirs, iterm, nanoidCount, loc>>

\* mutant: a failed worker does not end the batch
FailAndGoOn(p) ==
    IF loc[p].i < Len(loc[p].tasks)
    THEN /\ pc' = [pc EXCEPT ![p] = "sp_prepare"]
         /\ loc' = [loc EXCEPT ![p] = [idleLoc EXCEPT !.cmd = loc[p].cmd,
                                                     !.tasks = loc[p].tasks,
                                                     !.i = loc[p].i + 1]]
         /\ UNCHANGED <<DEFAULT_STATE, out>>
    ELSE Exit(p, [noOutput EXCEPT !.code = 1])

\* spinner.fail(...); process.exit(1)
Fail(p) == Exit(p, [noOutput EXCEPT !.code = 1])

Goto(p, label) == pc' = [pc EXCEPT ![p] = label]

\* the n task texts of an invocation: texts no earlier invocation gave
taskList(n) == [k \in 1..n |-> "task " \o ToString(nanoidCount + k)]

\* ---------------------------------------------------------------- spawn
\* the options of the invocations the operator may start: the task texts, and
\* neither --no-dev nor -p
operatorOptions ==
    {[task |-> taskList(n), noDev |-> FALSE, port |-> 0] : n \in 1..MaxTasks}

\* the strings of at most n characters of chars
RECURSIVE strings(_, _)
strings(chars, n) ==
    IF n = 0 THEN {""}
    ELSE LET shorter == strings(chars, n - 1)
         IN shorter \cup {str \o c : str \in shorter, c \in chars}

RECURSIVE repeat(_, _)
repeat(c, n) == IF n = 0 THEN "" ELSE c \o repeat(c, n - 1)

\* task texts for the branch name: letters of both cases, digits, hyphens and
\* punctuation at the start and at the end, around nothing or a word that
\* brings the text to the length where the slug is cut
BranchTasks ==
    {head \o repeat("x", n) \o tail :
        head \in strings({"a", "B", "7", "-", "!"}, MaxEdge),
        n \in {0} \cup ((slugLength - 2)..slugLength),
        tail \in strings({"!", "z"}, MaxEdge)}

\* one task of BranchTasks, for the first spawn
branchOptions ==
    IF nanoidCount = 0
    THEN {[task |-> <<task>>, noDev |-> FALSE, port |-> 0] : task \in BranchTasks}
    ELSE {}

\* the invocations with and without -p 4000
portOptions ==
    {[task |-> taskList(n), noDev |-> FALSE, port |-> port] :
        n \in 1..MaxTasks, port \in {0, 4000}}

\* parallel-claude spawn <repo> -t ... [--no-dev] [-p port], for the options
\* the operator may give (port 0: no -p)
StartSpawn(p, options) ==
    /\ pc[p] = "idle"
    /\ \E o \in options :
        /\ nanoidCount + Len(o.task) <= MaxSpawns
        /\ loc' = [loc EXCEPT ![p] = [idleLoc EXCEPT !.cmd = "spawn",
                                                    !.tasks = o.task,
                                                    !.i = 1,
                                                    !.noDev = o.noDev,
                                                    !.optPort = o.port]]
    /\ Goto(p, "sp_prepare")
    /\ UNCHANGED <<stateFile, DEFAULT_STATE, dirs, iterm, nanoidCount, out>>

\* spawnSingleWorker, "Generate worker details" to the directory check
SpawnPrepare(p) ==
    /\ pc[p] = "sp_prepare"
    /\ \E workerName \in generateWorkerName({w.name : w \in SeqToSet(getAllWorkers(store(p)))}) :
        /\ nanoidCount' = nanoidCount + 1
        /\ IF workerDir(workerName) \in dirs
           THEN /\ Fail(p)
           ELSE /\ loc' = [loc EXCEPT ![p].workerName = workerName,
                                      ![p].workerId = "id" \o ToString(nanoidCount + 1),
                                      ![p].port = getNextPort(store(p)),
                                      ![p].branchName =
                                          generateBranchName(loc[p].tasks[loc[p].i],
                                                             workerName)]
                /\ Goto(p, "sp_clone")
                /\ UNCHANGED <<DEFAULT_STATE, out>>
    /\ UNCHANGED <<stateFile, dirs, iterm>>

\* git clone: populates the worker directory, or fails; it fails when the
\* directory has come to exist since the check (another process cloned into it)
SpawnClone(p) ==
    /\ pc[p] = "sp_clone"
    /\ \/ /\ workerDir(loc[p].workerName) \notin dirs
          /\ dirs' = dirs \cup {workerDir(loc[p].workerName)}
          /\ Goto(p, "sp_setup")
          /\ UNCHANGED <<loc, DEFAULT_STATE, out>>
       \/ /\ Fail(p)
          /\ UNCHANGED dirs
    /\ UNCHANGED <<stateFile, iterm, nanoidCount>>

\* git config, git checkout -b, .env.local, install: any of them may throw
SpawnSetup(p) ==
    /\ pc[p] = "sp_setup"
    /\ \/ /\ Goto(p, "sp_add")
          /\ UNCHANGED <<loc, DEFAULT_STATE, out>>
       \/ Fail(p)
    /\ UNCHANGED <<stateFile, dirs, iterm, nanoidCount>>

\* mutant: every worker is taken for the first
isFirstWorkerAlways(s) == TRUE

\* const isFirstWorker = getAllWorkers().length === 0
isFirstWorker(s) == Len(getAllWorkers(s)) = 0

\* mutant: the port is read again when the record is built
newWorkerFreshPort(p) ==
    [id |-> loc[p].workerId, name |-> loc[p].workerName,
     branch |-> loc[p].branchName,
     task |-> loc[p].tasks[loc[p].i],
     directory |-> workerDir(loc[p].workerName),
     port |-> getNextPort(store(p)), status |-> "setting-up", terminalTab |-> None]

\* const worker: Worker = { id, name, ..., port, status: "setting-up" }
newWorker(p) ==
    [id |-> loc[p].workerId, name |-> loc[p].workerName,
     branch |-> loc[p].branchName,
     task |-> loc[p].tasks[loc[p].i],
     directory |-> workerDir(loc[p].workerName),
     port |-> loc[p].port, status |-> "setting-up", terminalTab |-> None]

\* "Create worker record": isFirstWorker, then addWorker(worker)
SpawnAddWorker(p) ==
    /\ pc[p] = "sp_add"
    /\ loc' = [loc EXCEPT ![p].isFirstWorker = isFirstWorker(store(p))]
    /\ Stored(p, addWorker(store(p), newWorker(p)))
    /\ Goto(p, "sp_iterm")
    /\ UNCHANGED <<dirs, iterm, nanoidCount, out>>

\* await ensureItermRunning(): the scripts may throw
SpawnEnsureIterm(p) ==
    /\ pc[p] = "sp_iterm"
    /\ \/ /\ Goto(p, "sp_open")
          /\ UNCHANGED <<loc, DEFAULT_STATE, out>>
       \/ Fail(p)
    /\ UNCHANGED <<stateFile, dirs, iterm, nanoidCount>>

devCmd(p) ==
    IF loc[p].noDev THEN None
    ELSE "npm run dev -- --port " \o ToString(loc[p].port)

claudeCmd == "claude --dangerously-skip-permissions"

fullTask(task) == "Always make sure to follow CLAUDE.md before starting. Task: " \o task

\* const windowId = await openWorkerTab(...): the script runs, or throws
SpawnOpenTab(p) ==
    /\ pc[p] = "sp_open"
    /\ \/ LET r == openWorkerTab(loc[p].workerName, workerDir(loc[p].workerName),
                                 devCmd(p), claudeCmd,
                                 fullTask(loc[p].tasks[loc[p].i]),
                                 loc[p].isFirstWorker)
          IN /\ iterm' = r.iterm
             /\ loc' = [loc EXCEPT ![p].windowId = r.ret]
             /\ Goto(p, "sp_update")
             /\ UNCHANGED <<DEFAULT_STATE, out>>
       \/ /\ Fail(p)
          /\ UNCHANGED iterm
    /\ UNCHANGED <<stateFile, dirs, nanoidCount>>

\* updateWorkerStatus(workerName, "running", { terminalTab: windowId }); then
\* the next task of the batch, or the end of the command
SpawnUpdateStatus(p) ==
    /\ pc[p] = "sp_update"
    /\ LET s == updateWorkerStatus(store(p), loc[p].workerName, "running", loc[p].windowId)
       IN IF loc[p].i < Len(loc[p].tasks)
          THEN /\ Stored(p, s)
               /\ loc' = [loc EXCEPT ![p] = [idleLoc EXCEPT !.cmd = "spawn",
                                                           !.tasks = loc[p].tasks,
                                                           !.i = loc[p].i + 1,
                                                           !.noDev = loc[p].noDev,
                                                           !.optPort = loc[p].optPort]]
               /\ Goto(p, "sp_prepare")
               /\ UNCHANGED out
          ELSE /\ stateFile' = s.file
               /\ Exit(p, noOutput)
    /\ UNCHANGED <<dirs, iterm, nanoidCount>>

\* -------------------------------------------------------------- cleanup
\* what the operator may type for [name]: a name or id in the registry, or neither
keys(p) ==
    {w.name : w \in SeqToSet(getAllWorkers(store(p)))}
        \cup {w.id : w \in SeqToSet(getAllWorkers(store(p)))} \cup {"no-such-worker"}

\* try { await sendToItermSession(tab, "\\x03"); ...; await closeItermTab(tab) }
\* catch {}: iTerm2 after it.  A throw of the first skips the second, and the
\* second swallows its own.
closeTab(terminalTab) ==
    IF terminalTab = None
    THEN {iterm}
    ELSE LET sent == sendToItermSession(terminalTab, "\\x03")
         IN {iterm, sent, [sent EXCEPT !.windows = closeItermTab(@, terminalTab)]}

\* mutant: the hint is cleared whatever is left
clearIfNoWorkersAlways(s) == clearItermWindowId(s)

\* if (getAllWorkers().length === 0) { clearItermWindowId(); }
clearIfNoWorkers(s) ==
    IF Len(getAllWorkers(s)) = 0 THEN clearItermWindowId(s) ELSE [file |-> s.file, def |-> s.def]

\* parallel-claude cleanup [name]: the whole of cleanup(nameOrId, {}).  Not
\* found, or no name: exit(1).  Else the tab is closed (best effort), the
\* directory deleted (rmSync, then rm -rf; when both throw: exit(1)), the
\* record removed and the hint cleared when no worker is left.
Cleanup(p) ==
    /\ pc[p] = "idle"
    /\ \/ \E nameOrId \in keys(p) :
            LET worker == getWorker(store(p), nameOrId)
            IN IF worker = undefinedWorker
               THEN /\ Fail(p)
                    /\ UNCHANGED <<stateFile, dirs, iterm>>
               ELSE /\ iterm' \in closeTab(worker.terminalTab)
                    /\ \/ /\ dirs' = dirs \ {worker.directory}
                          /\ stateFile' = clearIfNoWorkers(removeWorker(store(p), nameOrId)).file
                          /\ Exit(p, [noOutput EXCEPT !.name = worker.name])
                       \/ /\ worker.directory \in dirs
                          /\ Fail(p)
                          /\ UNCHANGED <<dirs, stateFile>>
       \/ \* neither a name nor --all
          /\ Fail(p)
          /\ UNCHANGED <<stateFile, dirs, iterm>>
    /\ UNCHANGED nanoidCount

\* ----------------------------------------------------------- cleanup --all
\* mutant: the dry run lists the ids
dryRunIds(workers) == [k \in 1..Len(workers) |-> workers[k].id]

\* for (const worker of workers) console.log(`  - ${worker.name} (...)`)
dryRun(workers) == [k \in 1..Len(workers) |-> workers[k].name]

\* cleanupAll up to the loop: nothing to do, the dry run, or the forced run
StartCleanupAll(p) ==
    /\ pc[p] = "idle"
    /\ \E force \in BOOLEAN :
        LET workers == getAllWorkers(store(p))
        IN IF Len(workers) = 0
           THEN Exit(p, noOutput)
           ELSE IF ~force
           THEN Exit(p, [noOutput EXCEPT !.listed = dryRun(workers)])
           ELSE /\ loc' = [loc EXCEPT ![p] = [idleLoc EXCEPT !.cmd = "cleanupAll",
                                                           !.workers = workers,
                                                           !.i = 1]]
                /\ Goto(p, "ca_loop")
                /\ UNCHANGED <<DEFAULT_STATE, out>>
    /\ UNCHANGED <<stateFile, dirs, iterm, nanoidCount>>

\* mutant: the first failure ends the loop
iteratedUntilFailure(p, s, l) ==
    IF l.i < Len(l.workers) /\ l.failed = 0
    THEN /\ Stored(p, s)
         /\ loc' = [loc EXCEPT ![p] = [l EXCEPT !.i = @ + 1]]
         /\ UNCHANGED <<pc, out>>
    ELSE /\ stateFile' = clearItermWindowId(s).file
         /\ Exit(p, [noOutput EXCEPT !.cleaned = l.cleaned, !.failed = l.failed])

\* The rest of one iteration, for the store s it leaves and the counts in l:
\* the loop goes to the next worker, or ends with clearItermWindowId() ("Clear
\* window ID since all workers are gone") and the report of the counts.
iterated(p, s, l) ==
    IF l.i < Len(l.workers)
    THEN /\ Stored(p, s)
         /\ loc' = [loc EXCEPT ![p] = [l EXCEPT !.i = @ + 1]]
         /\ UNCHANGED <<pc, out>>
    ELSE /\ stateFile' = clearItermWindowId(s).file
         /\ Exit(p, [noOutput EXCEPT !.cleaned = l.cleaned, !.failed = l.failed])

\* one iteration of for (const worker of workers): the tab is closed (best
\* effort); rmSync / rm -rf, removeWorker(worker.id), cleaned++; a throw: failed++
CleanupAllWorker(p) ==
    /\ pc[p] = "ca_loop"
    /\ LET worker == loc[p].workers[loc[p].i]
       IN /\ iterm' \in closeTab(worker.terminalTab)
          /\ \/ /\ dirs' = dirs \ {worker.directory}
                /\ iterated(p, removeWorker(store(p), worker.id),
                            [loc[p] EXCEPT !.cleaned = @ + 1])
             \/ /\ worker.directory \in dirs
                /\ UNCHANGED dirs
                /\ iterated(p, store(p), [loc[p] EXCEPT !.failed = @ + 1])
    /\ UNCHANGED nanoidCount

\* ---------------------------------------------------------------- focus
\* a promise rejected with no handler: the action of the focus command is
\* started by program.parse() and nothing catches what it throws; the process
\* dies with a stack trace and exit code 1
UnhandledRejection(p) == Exit(p, [noOutput EXCEPT !.code = 1])

\* parallel-claude focus <name>: getWorker(name); no worker, or no handle:
\* exit(1)
StartFocus(p) ==
    /\ pc[p] = "idle"
    /\ \E name \in keys(p) :
          LET worker == getWorker(store(p), name)
          IN IF worker = undefinedWorker \/ worker.terminalTab = None
             THEN Fail(p)
             ELSE /\ loc' = [loc EXCEPT ![p] = [idleLoc EXCEPT !.cmd = "focus",
                                                              !.workerName = worker.name,
                                                              !.windowId = worker.terminalTab]]
                  /\ Goto(p, "fo_focus")
                  /\ UNCHANGED <<DEFAULT_STATE, out>>
    /\ UNCHANGED <<stateFile, dirs, iterm, nanoidCount>>

\* await focusItermSession(worker.terminalTab): the script runs (activate, and
\* select the tab of the session whose id is the handle; which tab is in front
\* is not part of the terminal's state here), or runAppleScript throws
FocusSession(p) ==
    /\ pc[p] = "fo_focus"
    /\ \/ Exit(p, noOutput)
       \/ UnhandledRejection(p)
    /\ UNCHANGED <<stateFile, dirs, iterm, nanoidCount>>

\* ----------------------------------------------------------------- list
\* parallel-claude list: getAllWorkers(), each worker printed
List(p) ==
    /\ pc[p] = "idle"
    /\ LET workers == getAllWorkers(store(p))
       IN Exit(p, [noOutput EXCEPT !.listed = [k \in 1..Len(workers) |-> workers[k].name]])
    /\ UNCHANGED <<stateFile, dirs, iterm, nanoidCount>>

\* ------------------------------------------------------------ the world
\* Between two invocations a worker directory is deleted outside the tool (the
\* manual cleanup a failed spawn asks for); the commands test existsSync before
\* they rely on a directory.
RemoveDirectoryByHand ==
    /\ \A p \in Procs : pc[p] = "idle"
    /\ \E d \in dirs : dirs' = dirs \ {d}
    /\ UNCHANGED <<stateFile, DEFAULT_STATE, iterm, nanoidCount, pc, loc, out>>

\* The user closes a window of the terminal, with every session in it.
CloseWindowByHand ==
    /\ \E k \in 1..Len(iterm.windows) :
          iterm' = [iterm EXCEPT !.windows =
                       SubSeq(@, 1, k - 1) \o SubSeq(@, k + 1, Len(@))]
    /\ UNCHANGED <<stateFile, DEFAULT_STATE, dirs, nanoidCount, pc, loc, out>>

\* A caller of the registry API records the shared window: setItermWindowId
\* with the id of a window of the terminal.
SetItermWindowId(p) ==
    /\ pc[p] = "idle"
    /\ \E k \in 1..Len(iterm.windows) :
        stateFile' = setItermWindowId(store(p), iterm.windows[k].id).file
    /\ UNCHANGED <<DEFAULT_STATE, dirs, iterm, nanoidCount, pc, loc, out>>

\* The state file is deleted, or left with a text that does not parse, outside
\* the tool: loadState then takes the path of its catch or of the missing file.
DamageStateFile ==
    /\ readable([file |-> stateFile, def |-> DEFAULT_STATE[1]])
    /\ \/ stateFile' = [exists |-> FALSE, corrupt |-> FALSE,
                        data |-> JSON_stringify(DefaultState)]
       \/ stateFile' = [exists |-> TRUE, corrupt |-> TRUE,
                        data |-> JSON_stringify(DefaultState)]
    /\ UNCHANGED <<DEFAULT_STATE, dirs, iterm, nanoidCount, pc, loc, out>>

\* ------------------------------------------------------- specifications
SpawnCommand(p) ==
    \/ SpawnPrepare(p)
    \/ SpawnClone(p)
    \/ SpawnSetup(p)
    \/ SpawnAddWorker(p)
    \/ SpawnEnsureIterm(p)
    \/ SpawnOpenTab(p)
    \/ SpawnUpdateStatus(p)

CleanupCommand(p) ==
    \/ Cleanup(p)
    \/ StartCleanupAll(p)
    \/ CleanupAllWorker(p)

\* one operator, one invocation at a time, the dev server never switched off
Commands ==
    \/ StartSpawn(1, operatorOptions)
    \/ SpawnCommand(1)
    \/ CleanupCommand(1)
    \/ Prompt(1)

Next ==
    \/ Commands
    \/ RemoveDirectoryByHand

Spec == Init /\ [][Next]_vars

\* spawns alone: no cleanup in between
NextSpawn ==
    \/ StartSpawn(1, operatorOptions)
    \/ SpawnCommand(1)
    \/ Prompt(1)

SpecSpawn == Init /\ [][NextSpawn]_vars

\* one task for each spawn, MaxRaceSpawns spawns in all
raceOptions ==
    IF nanoidCount + Cardinality({p \in Procs : pc[p] = "sp_prepare"}) < MaxRaceSpawns
    THEN {[task |-> taskList(1), noDev |-> FALSE, port |-> 0]}
    ELSE {}

\* a few spawns of one task, the cleanups, and a caller of the registry API
\* that sets the window hint
NextApi ==
    \/ StartSpawn(1, raceOptions)
    \/ SpawnCommand(1)
    \/ CleanupCommand(1)
    \/ Prompt(1)
    \/ SetItermWindowId(1)

SpecApi == Init /\ [][NextApi]_vars

\* the first spawn, for the task texts of BranchTasks
NextBranch ==
    \/ StartSpawn(1, branchOptions)
    \/ SpawnCommand(1)
    \/ Prompt(1)

SpecBranch == Init /\ [][NextBranch]_vars

\* spawns with and without the port option
NextOptions ==
    \/ StartSpawn(1, portOptions)
    \/ SpawnCommand(1)
    \/ Prompt(1)

SpecOptions == Init /\ [][NextOptions]_vars

\* the commands, with a state file that can be lost or damaged at any moment
NextStore ==
    \/ Commands
    \/ DamageStateFile

SpecStore == Init /\ [][NextStore]_vars

\* spawns, and a user who closes windows
NextClose ==
    \/ StartSpawn(1, operatorOptions)
    \/ SpawnCommand(1)
    \/ Prompt(1)
    \/ CloseWindowByHand

SpecClose == Init /\ [][NextClose]_vars

\* two operators at two prompts, each spawning
NextTwo ==
    \/ \E p \in Procs : StartSpawn(p, raceOptions)
    \/ \E p \in Procs : SpawnCommand(p)
    \/ \E p \in Procs : Prompt(p)

SpecTwo == Init /\ [][NextTwo]_vars

\* two operators at two prompts: the first spawns, the second cleans up
NextBeside ==
    \/ StartSpawn(1, raceOptions)
    \/ SpawnCommand(1)
    \/ Cleanup(2)
    \/ \E p \in Procs : Prompt(p)

SpecBeside == Init /\ [][NextBeside]_vars

\* a few spawns of one task, cleanups, and directories removed by hand
NextHands ==
    \/ StartSpawn(1, raceOptions)
    \/ SpawnCommand(1)
    \/ CleanupCommand(1)
    \/ Prompt(1)
    \/ RemoveDirectoryByHand

SpecHands == Init /\ [][NextHands]_vars

FocusCommand(p) ==
    \/ StartFocus(p)
    \/ FocusSession(p)

\* every command of the program: spawn, cleanup, focus and list
NextFocus ==
    \/ Commands
    \/ FocusCommand(1)
    \/ List(1)

SpecFocus == Init /\ [][NextFocus]_vars

\* ----------------------------------------------------------- properties
\* the registry as the operator's process reads it
registry == loadState(store(1))

\* the registry as the operator's process reads it after the step
registryAfter == loadState([file |-> stateFile', def |-> DEFAULT_STATE'[1]])

\* no invocation is running: the last one has ended, or its report was read
ended == pc[1] \in {"idle", "exited"}

\* C1: after N successful spawns with no cleanup in between (every record is
\* that of a completed spawn; attempts that failed before their record was
\* written left nothing), the i-th record in creation order has the port
\* basePort + (i - 1) * portIncrement.
C1_PortsInCreationOrder ==
    LET workers == registry.workers
    IN (\A i \in 1..Len(workers) : workers[i].status = "running")
       => \A i \in 1..Len(workers) :
            workers[i].port = basePort + (i - 1) * portIncrement

\* C1 witness: two completed spawns with a failed attempt between them that
\* drew an id and wrote no record.
C1_TwoSpawnsAroundAFailedAttempt ==
    LET workers == registry.workers
    IN /\ Len(workers) = 2
       /\ workers[1].id = "id1" /\ workers[1].status = "running"
       /\ workers[2].id = "id3" /\ workers[2].status = "running"
       /\ workers[2].port = basePort + portIncrement

\* C2: in every reachable state no two records have the same port, and every
\* port is basePort + k * portIncrement for some k in 0..nextPortOffset.
C2_PortsDistinctAndBounded ==
    LET workers == registry.workers
    IN /\ \A i, j \in 1..Len(workers) : i # j => workers[i].port # workers[j].port
       /\ \A i \in 1..Len(workers) :
            \E k \in 0..registry.nextPortOffset :
                workers[i].port = basePort + k * portIncrement

\* C2 witness: three workers were created and the first one cleaned up; the
\* two records left keep the second and third port.
C2_TwoLeftOfThree ==
    LET workers == registry.workers
    IN /\ registry.nextPortOffset = 3
       /\ Len(workers) = 2
       /\ workers[1].port = basePort + portIncrement
       /\ workers[2].port = basePort + 2 * portIncrement

\* C3 (amended): nextPortOffset counts the worker records ever written by
\* addWorker.  A step raises it by exactly 1 when it appends a record to the
\* registry, whether or not the spawn goes on to succeed, and no other step
\* (cleanup, cleanup --all, a status update, a port preview, a change of the
\* window hint) changes it.
C3_OffsetCountsRecordsWritten ==
    [][registryAfter.nextPortOffset =
         registry.nextPortOffset
           + (IF Len(registryAfter.workers) > Len(registry.workers) THEN 1 ELSE 0)]_vars

\* C3 witness: a spawn aborted after its record was written; no spawn has
\* succeeded and the counter stands at 1.
C3_AbortedSpawnCounted ==
    /\ pc[1] = "exited" /\ out[1].code = 1
    /\ registry.nextPortOffset = 1
    /\ Len(registry.workers) = 1
    /\ registry.workers[1].status = "setting-up"

\* C3 as stated: nextPortOffset counts the successful spawns.  A spawn attempt
\* that aborts, at whatever step, leaves the counter where the attempt found it
\* (the port it previewed is still the next port); an attempt that completes
\* raises it by 1; no step outside a spawn attempt changes it.
C3_OffsetCountsSuccessfulSpawns ==
    [][/\ (pc[1] \in {"sp_clone", "sp_setup", "sp_add", "sp_iterm", "sp_open"}
            /\ pc'[1] = "exited")
           => basePort + registryAfter.nextPortOffset * portIncrement = loc[1].port
       /\ pc[1] = "sp_update"
           => basePort + registryAfter.nextPortOffset * portIncrement
                = loc[1].port + portIncrement
       /\ pc[1] \in {"idle", "exited", "sp_prepare", "ca_loop"}
           => registryAfter.nextPortOffset = registry.nextPortOffset]_vars

\* C4: in every reachable state the names of the records are pairwise distinct,
\* and so are their directories.
C4_NamesDistinct ==
    LET workers == registry.workers
    IN \A i, j \in 1..Len(workers) :
        i # j => /\ workers[i].name # workers[j].name
                 /\ workers[i].directory # workers[j].directory

\* C4 witness: a second worker was spawned while the first one's directory was
\* gone, so that only the generator's test of the existing names kept the name
\* of the first from being drawn again.
C4_SpawnedBesideAMissingDirectory ==
    LET workers == registry.workers
    IN /\ Len(workers) = 2
       /\ workers[1].directory \notin dirs
       /\ workers[2].directory \in dirs
       /\ workers[2].status = "running"

\* C5 as stated: once an operation has completed, the window hint is absent
\* if and only if the registry has no records.
C5_HintAbsentIffNoWorkers ==
    ended => (getItermWindowId(store(1)) = None <=> Len(registry.workers) = 0)

\* C6: a cleanup that removes a worker clears the window hint when no record
\* is left and leaves it as it was when one is; a cleanup that fails leaves it
\* as it was.
C6_HintClearedWithLastWorker ==
    [][(pc[1] = "idle" /\ out'[1].name # None
          => registryAfter.itermWindowId =
               IF Len(registryAfter.workers) = 0 THEN None ELSE registry.itermWindowId)
       /\ (pc[1] = "idle" /\ out'[1].code = 1
          => registryAfter.itermWindowId = registry.itermWindowId)]_vars

\* C6 witness: with two workers registered and the hint set, one was cleaned
\* up: one record is left and the hint still stands.
C6_HintKeptBesideRemainingWorker ==
    /\ pc[1] = "exited" /\ out[1].name # None
    /\ registry.nextPortOffset = 2
    /\ Len(registry.workers) = 1
    /\ registry.itermWindowId # None

\* C7: worker A was the first ever and runs; when worker B, the second ever,
\* has its tab, one window has been created in all, it is the one A's record
\* holds, openWorkerTab returned it for B and B's session is in it.
C7_SecondWorkerReusesWindow ==
    LET workers == registry.workers
    IN (/\ pc[1] = "sp_update"
        /\ registry.nextPortOffset = 2 /\ Len(workers) = 2
        /\ workers[1].status = "running")
       => /\ iterm.nextWindow = 2
          /\ Len(iterm.windows) = 1
          /\ loc[1].windowId = iterm.windows[1].id
          /\ workers[1].terminalTab = iterm.windows[1].id
          /\ \E k \in 1..Len(iterm.windows[1].sessions) :
                startsWith(iterm.windows[1].sessions[k].name, loc[1].workerName)

\* C7 witness: B is the second task of the invocation that spawned A.
C7_SecondTaskOfBatchHasTab ==
    /\ pc[1] = "sp_update" /\ loc[1].i = 2
    /\ registry.nextPortOffset = 2 /\ Len(registry.workers) = 2
    /\ registry.workers[1].status = "running"

\* C8 as stated: the handle stored for a running worker is the id of a
\* session created for that worker, and no two running workers store the same
\* handle.
C8_HandleIsOwnSession ==
    LET workers == registry.workers
        running == {i \in 1..Len(workers) : workers[i].status = "running"}
    IN /\ \A i \in running :
            \E k \in 1..Len(iterm.windows) :
                \E j \in 1..Len(iterm.windows[k].sessions) :
                    /\ iterm.windows[k].sessions[j].id = workers[i].terminalTab
                    /\ startsWith(iterm.windows[k].sessions[j].name, workers[i].name)
       /\ \A i, j \in running : i # j => workers[i].terminalTab # workers[j].terminalTab

\* C9 as stated: once a spawn attempt has ended, no record is left in status
\* setting-up.
C9_NoRecordLeftSettingUp ==
    ended => \A i \in 1..Len(registry.workers) :
                registry.workers[i].status # "setting-up"

\* C10: for every record r of the registry, removeWorker(r.name) and
\* removeWorker(r.id) leave the same state and both return r; removeWorker of
\* an identifier that matches no record returns undefined and leaves the state
\* file and the process's state as they were.
C10_RemoveByNameOrId ==
    LET workers == registry.workers
        missing == removeWorker(store(1), "no-such-worker")
    IN /\ \A i \in 1..Len(workers) :
            LET byName == removeWorker(store(1), workers[i].name)
                byId == removeWorker(store(1), workers[i].id)
            IN /\ byName = byId
               /\ byId.ret = workers[i]
               /\ Len(byId.file.data.workers) = Len(workers) - 1
       /\ missing = [file |-> stateFile, def |-> DEFAULT_STATE[1], ret |-> undefinedWorker]

\* C10 witness: of two records the second is removed by its id: it is the
\* record returned, and the first is the one left.
C10_SecondOfTwoRemovedById ==
    LET workers == registry.workers
        r == removeWorker(store(1), workers[2].id)
    IN /\ Len(workers) = 2
       /\ r.ret = workers[2]
       /\ JSON_parse(r.file.data).workers = <<workers[1]>>

\* C11: cleanup --all that does not run the loop (the dry run, or nothing to
\* clean up) lists exactly the names of the records, in order, and leaves the
\* state file (records, nextPortOffset, window hint), the worker directories
\* and the terminal as they were.
C11_DryRunListsAndChangesNothing ==
    [][(pc[1] = "idle" /\ pc'[1] = "exited"
          /\ out'[1].code = 0 /\ out'[1].name = None)
       => /\ Len(out'[1].listed) = Len(registry.workers)
          /\ \A k \in 1..Len(registry.workers) :
                out'[1].listed[k] = registry.workers[k].name
          /\ stateFile' = stateFile
          /\ registryAfter = registry
          /\ dirs' = dirs
          /\ iterm' = iterm]_vars

\* C11 witness: the dry run has listed the two workers of the registry, which
\* are still there with their directories.
C11_TwoWorkersListed ==
    /\ pc[1] = "exited"
    /\ Len(registry.workers) = 2
    /\ out[1].listed = <<registry.workers[1].name, registry.workers[2].name>>
    /\ \A k \in 1..2 : registry.workers[k].directory \in dirs

\* C12: when cleanup --all --force ends, cleaned + failed is the number of
\* records it started with, cleaned is the number of records removed, and the
\* records left are those whose directory could not be deleted: every worker
\* whose deletion went through is gone, whatever happened to the others.
C12_EveryWorkerProcessed ==
    [][(pc[1] = "ca_loop" /\ pc'[1] = "exited")
       => /\ out'[1].cleaned + out'[1].failed = Len(loc[1].workers)
          /\ out'[1].cleaned = Len(loc[1].workers) - Len(registryAfter.workers)
          /\ \A k \in 1..Len(loc[1].workers) :
                LET worker == loc[1].workers[k]
                IN (\E j \in 1..Len(registryAfter.workers) :
                        registryAfter.workers[j].id = worker.id)
                   <=> worker.directory \in dirs']_vars

\* C12 witness: of two workers the first could not be cleaned and the second,
\* processed after it, was removed.
C12_SecondCleanedAfterFirstFailed ==
    /\ pc[1] = "exited"
    /\ out[1].cleaned = 1 /\ out[1].failed = 1
    /\ registry.nextPortOffset = 2
    /\ Len(registry.workers) = 1
    /\ registry.workers[1].port = basePort

\* C13 as stated: once cleanup --all --force has completed, no record is left
\* in the registry and the window hint is absent, also when the deletion of a
\* directory failed.
C13_AllRemovedAndHintCleared ==
    (pc[1] = "exited" /\ out[1].cleaned + out[1].failed > 0)
    => /\ Len(registry.workers) = 0
       /\ getItermWindowId(store(1)) = None

\* what loadState returns once saveState(state) has written the file
loadedAfterSave(state) == loadState([file |-> saveState(state), def |-> DEFAULT_STATE[1]])

\* C14: for the state s the registry holds, and for s without its workers,
\* without or with a window hint, and with a handle in every record,
\* loadState after saveState(s) returns s; and
\* saving what loadState returned and loading again returns the same.
C14_SaveLoadRoundTrip ==
    LET loaded == registry
        states == {loaded, DefaultState,
                   [loaded EXCEPT !.workers = <<>>],
                   [loaded EXCEPT !.itermWindowId = None],
                   [loaded EXCEPT !.itermWindowId = "w1"],
                   [loaded EXCEPT !.workers =
                       [k \in 1..Len(@) |-> [@[k] EXCEPT !.terminalTab = "w1"]]]}
    IN /\ \A s \in states : loadedAfterSave(s) = s
       /\ loadedAfterSave(loadedAfterSave(loaded)) = loaded

\* C14 witness: a state with the window hint, a running worker with its
\* handle and a worker still without one, read back from the file.
C14_FileWithHintAndOptionalFields ==
    /\ readable(store(1))
    /\ registry.itermWindowId # None
    /\ Len(registry.workers) = 2
    /\ registry.workers[1].terminalTab # None
    /\ registry.workers[2].terminalTab = None
    /\ loadedAfterSave(registry) = registry

\* C15 as stated: whenever the state file is absent or does not parse,
\* loadState returns the default empty state, and the registry operations
\* behave as on an empty registry: no worker is found, the next port is
\* basePort, and after addWorker(w) the registry holds w alone with
\* nextPortOffset 1.
C15_UnreadableStoreReadsAsEmpty ==
    LET s == store(1)
        w == [undefinedWorker EXCEPT !.id = "id0", !.name = "new-worker",
                                     !.port = basePort, !.status = "setting-up"]
    IN ~readable(s)
       => /\ loadState(s) = DefaultState
          /\ getAllWorkers(s) = <<>>
          /\ getNextPort(s) = basePort
          /\ loadState(addWorker(s, w))
                = [workers |-> <<w>>, nextPortOffset |-> 1, itermWindowId |-> None]

\* C16: for every set of existing names taken from the adjective-animal
\* pairs, every name generateWorkerName can return (whichever draws are made,
\* the timestamp name after MaxAttempts collisions included) is outside the
\* set, and there is always one; the name a spawn has just generated is the
\* name of no record.
C16_GeneratedNameIsNew ==
    /\ \A existingNames \in SUBSET draws :
          LET returned == generateWorkerName(existingNames)
          IN returned # {} /\ returned \cap existingNames = {}
    /\ pc[1] = "sp_clone"
          => \A i \in 1..Len(registry.workers) :
                registry.workers[i].name # loc[1].workerName

\* C16 witness: every pair the draws reach is the name of a record, and the
\* spawn under way was given the timestamp name.
C16_FallbackAfterCollisions ==
    /\ pc[1] = "sp_clone"
    /\ {registry.workers[i].name : i \in 1..Len(registry.workers)} = draws
    /\ loc[1].workerName = "worker-" \o ToString(nanoidCount)

C18_SuppliedPortIsUsed ==
    (pc[1] \in {"sp_clone", "sp_setup", "sp_add", "sp_iterm", "sp_open", "sp_update"}
        /\ loc[1].optPort # 0)
    => /\ loc[1].port = loc[1].optPort
       /\ devCmd(1) = "npm run dev -- --port " \o ToString(loc[1].optPort)
       /\ \A i \in 1..Len(registry.workers) :
             registry.workers[i].id = loc[1].workerId
                => registry.workers[i].port = loc[1].optPort

\* the records the spawn invocation under way has written so far
writtenByBatch ==
    (loc[1].i - 1) + (IF pc[1] \in {"sp_iterm", "sp_open", "sp_update"} THEN 1 ELSE 0)

\* C19: while a spawn invocation works on task i, the records of its tasks
\* 1..i-1 are the last records of the registry but for its own, in the order
\* of the tasks, and are running; no record exists for a later task; the
\* invocation moves to task i + 1 only in the step that sets worker i running;
\* and a step that fails ends the invocation.
C19_OneWorkerAtATimeInOrder ==
    /\ [](loc[1].cmd = "spawn"
            => LET workers == registry.workers
                   m == writtenByBatch
               IN /\ Len(workers) >= m
                  /\ \A j \in 1..m :
                        /\ workers[Len(workers) - m + j].task = loc[1].tasks[j]
                        /\ (j < loc[1].i
                              => workers[Len(workers) - m + j].status = "running")
                  /\ \A j \in (m + 1)..Len(loc[1].tasks) :
                        \A k \in 1..Len(workers) : workers[k].task # loc[1].tasks[j])
    /\ [][/\ (loc[1].cmd = "spawn" /\ loc'[1].cmd = "spawn" /\ loc'[1].i # loc[1].i)
              => /\ loc'[1].i = loc[1].i + 1
                 /\ pc[1] = "sp_update"
                 /\ registryAfter.workers[Len(registryAfter.workers)].status = "running"
                 /\ registryAfter.workers[Len(registryAfter.workers)].task
                      = loc[1].tasks[loc[1].i]
          /\ (loc[1].cmd = "spawn" /\ pc[1] # "sp_update" /\ pc'[1] = "exited")
              => out'[1].code = 1]_vars

\* C19 witness: the invocation has begun the setup of its second task, and the
\* worker of its first task is the last record and is running.
C19_SecondTaskAfterFirstRuns ==
    /\ pc[1] = "sp_clone" /\ loc[1].i = 2
    /\ Len(registry.workers) >= 1
    /\ registry.workers[Len(registry.workers)].task = loc[1].tasks[1]
    /\ registry.workers[Len(registry.workers)].status = "running"

\* C20: a scripting failure in closing, sending or focusing does not abort the
\* command: a cleanup that reports a worker cleaned has deleted its directory
\* and removed its record whatever became of the scripts, and the focus of a
\* worker that has a handle ends without an error; a session creation that
\* leaves the terminal as it was has failed, and ends the spawn with an error.
C20_BestEffortScriptingNeverAborts ==
    [][/\ (pc[1] = "idle" /\ pc'[1] = "exited" /\ out'[1].name # None)
            => /\ out'[1].code = 0
               /\ workerDir(out'[1].name) \notin dirs'
               /\ \A k \in 1..Len(registryAfter.workers) :
                     registryAfter.workers[k].name # out'[1].name
       /\ (pc[1] = "fo_focus") => (pc'[1] = "exited" /\ out'[1].code = 0)
       /\ (pc[1] = "sp_open" /\ iterm' = iterm)
            => (pc'[1] = "exited" /\ out'[1].code = 1)]_vars

\* C21 as stated: no window is ever created while a window that carries the
\* marker session is open, so that at most one window carries the marker.
C21_OneMarkerWindow ==
    Cardinality({k \in 1..Len(iterm.windows) : hasMarker(iterm.windows[k])}) <= 1

\* C22: when a session creation for a worker that is not the first of the
\* registry, begun when no window carries the marker, goes through, a window
\* has been created whose first session is the marker and which holds the
\* worker's sessions after it, the windows there were are untouched, and the
\* id of the new window is what the script returned; the status update that
\* follows leaves the worker running.
C22_FallsBackToNewWindow ==
    [][/\ (/\ pc[1] = "sp_open" /\ ~loc[1].isFirstWorker
           /\ findWorkersWindow = None /\ pc'[1] = "sp_update")
          => LET win == iterm'.windows[Len(iterm'.windows)]
             IN /\ Len(iterm'.windows) = Len(iterm.windows) + 1
                /\ SubSeq(iterm'.windows, 1, Len(iterm.windows)) = iterm.windows
                /\ win.sessions[1].name = MarkerName
                /\ Len(win.sessions) >= 2
                /\ \A k \in 2..Len(win.sessions) :
                      startsWith(win.sessions[k].name, loc[1].workerName)
                /\ loc'[1].windowId = win.id
       /\ (pc[1] = "sp_update" /\ pc'[1] # "sp_update")
          => \E k \in 1..Len(registryAfter.workers) :
                /\ registryAfter.workers[k].name = loc[1].workerName
                /\ registryAfter.workers[k].status = "running"]_vars

\* C22 witness: the window of the first worker is gone, and the second worker
\* runs in a second window, the only one open, which has its own marker.
C22_SecondWorkerInSecondWindow ==
    /\ Len(registry.workers) = 2
    /\ \A k \in 1..2 : registry.workers[k].status = "running"
    /\ registry.workers[1].terminalTab = "w1"
    /\ registry.workers[2].terminalTab = "w2"
    /\ Len(iterm.windows) = 1
    /\ iterm.windows[1].id = "w2"
    /\ iterm.windows[1].sessions[1].name = MarkerName

\* C23: the script of a session creation, with and without a dev command, ends
\* with: agent command, the long delay, the task text, the short delay, an
\* empty line, return.  Before them comes the creation of the tab, with the
\* dev command and then the split between the two exactly when a dev command
\* is given, and before the tab the creation of the window and the naming of
\* the marker exactly when no window was found.  The task text is written
\* nowhere before the agent command.  Once the script has run, the agent's
\* session has received the agent command, the task and the empty line, in
\* this order.
C23_StepsOfSessionCreation ==
    /\ pc[1] = "sp_open"
         => \A devCommand \in {None, devCmd(1)} :
            \A existingWindowId \in {None, findWorkersWindow} :
              LET dir == workerDir(loc[1].workerName)
                  task == fullTask(loc[1].tasks[loc[1].i])
                  s == script(loc[1].workerName, dir, devCommand, claudeCmd,
                              task, existingWindowId)
                  n == Len(s)
                  at(op) == {k \in 1..n : s[k].op = op}
                  agent == n - 5
              IN /\ n >= 8
                 /\ s[n].op = "return"
                 /\ s[n - 1] = statement("write text", "", 0)
                 /\ s[n - 2] = statement("delay", "", confirmDelay)
                 /\ s[n - 3] = statement("write text", task, 0)
                 /\ s[n - 4] = statement("delay", "", claudeStartDelay)
                 /\ s[agent] = statement("write text", "cd " \o dir \o " && " \o claudeCmd, 0)
                 /\ confirmDelay < claudeStartDelay
                 /\ at("delay") = {n - 4, n - 2}
                 /\ at("return") = {n}
                 /\ \A k \in 1..(agent - 1) : s[k].text # task
                 /\ \E tab \in 1..(agent - 1) :
                       /\ at("create tab") = {tab}
                       /\ IF existingWindowId = None
                          THEN \E w \in 1..(tab - 2) :
                                  /\ at("create window") = {w}
                                  /\ s[w + 1] = statement("set name", MarkerName, 0)
                          ELSE /\ at("create window") = {}
                               /\ \A k \in 1..n : s[k].text # MarkerName
                       /\ IF devCommand # None
                          THEN \E d \in (tab + 1)..(agent - 2) :
                                  /\ s[d] = statement("write text",
                                                      "cd " \o dir \o " && " \o devCommand, 0)
                                  /\ at("split vertically") \cap (d + 1)..(agent - 1) # {}
                                  /\ Cardinality(at("split vertically")) = 1
                                  /\ at("write text") = {d, agent, n - 3, n - 1}
                          ELSE /\ at("split vertically") = {}
                               /\ at("write text") = {agent, n - 3, n - 1}
    /\ pc[1] = "sp_update"
         => \E w \in 1..Len(iterm.windows) :
              LET sessions == iterm.windows[w].sessions
              IN /\ iterm.windows[w].id = loc[1].windowId
                 /\ sessions[Len(sessions)].text
                      = << "cd " \o workerDir(loc[1].workerName) \o " && " \o claudeCmd,
                           fullTask(loc[1].tasks[loc[1].i]),
                           "" >>

\* C23 witness: the second worker of a batch has had its tab created in the
\* window of the first: the marker session and two panes for each worker.
C23_TwoTabsBehindTheMarker ==
    /\ pc[1] = "sp_update" /\ loc[1].i = 2
    /\ Len(iterm.windows) = 1
    /\ Len(iterm.windows[1].sessions) = 5
    /\ iterm.windows[1].sessions[1].name = MarkerName
    /\ iterm.windows[1].sessions[5].name = loc[1].workerName \o " - claude"
    /\ Len(iterm.windows[1].sessions[5].text) = 3

\* C24: in every state each record is setting-up without a handle or running
\* with one; a record enters the registry setting-up and without a handle; and
\* the only change a step of spawn, cleanup, cleanup --all, focus or list makes
\* to the status or the handle of a record is the step of spawn that sets it
\* running and stores the handle.
C24_StatusLifecycle ==
    /\ [](LET now == registry.workers
          IN \A k \in 1..Len(now) :
                /\ now[k].status \in {"setting-up", "running"}
                /\ now[k].status = "running" <=> now[k].terminalTab # None)
    /\ [][LET old == registry.workers
              new == registryAfter.workers
          IN \A k \in 1..Len(new) :
                LET w == new[k]
                    before == {j \in 1..Len(old) : old[j].id = w.id}
                IN /\ before = {}
                        => (w.status = "setting-up" /\ w.terminalTab = None /\ pc[1] = "sp_add")
                   /\ \A j \in before :
                        LET v == old[j]
                        IN (v.status # w.status \/ v.terminalTab # w.terminalTab)
                           => /\ pc[1] = "sp_update"
                              /\ v.status = "setting-up" /\ v.terminalTab = None
                              /\ w.status = "running" /\ w.terminalTab = loc[1].windowId
                              /\ w.terminalTab # None]_vars

\* C24 witness: the first worker of a batch runs and has its handle, the
\* second has just been recorded and has none.
C24_OneRunningOneSettingUp ==
    /\ pc[1] = "sp_iterm" /\ loc[1].i = 2
    /\ Len(registry.workers) = 2
    /\ registry.workers[1].status = "running"
    /\ registry.workers[1].terminalTab # None
    /\ registry.workers[2].status = "setting-up"
    /\ registry.workers[2].terminalTab = None

\* C25: with two processes spawning side by side, the record a process adds
\* carries the port that process computed when it prepared the worker, whatever
\* the counter has become since, and the counter is raised by one; the port is
\* that of a record already in the registry only if the counter has moved
\* between the two, that is, if the other process persisted a record after
\* this one read the counter.
C25_PortIsTheOneReadAtPrepare ==
    [][\A p \in Procs :
         (pc[p] = "sp_add" /\ pc'[p] = "sp_iterm")
         => LET w == registryAfter.workers[Len(registryAfter.workers)]
            IN /\ Len(registryAfter.workers) = Len(registry.workers) + 1
               /\ w.id = loc[p].workerId
               /\ w.port = loc[p].port
               /\ registryAfter.nextPortOffset = registry.nextPortOffset + 1
               /\ (\E k \in 1..Len(registry.workers) :
                      registry.workers[k].port = w.port)
                    => loc[p].port # getNextPort(store(p))]_vars

\* C25 witness: both processes read the counter before either persisted its
\* record, and the registry holds two records with the same port.
C25_TwoRecordsOnePort ==
    /\ Len(registry.workers) = 2
    /\ registry.workers[1].port = registry.workers[2].port
    /\ registry.workers[1].id # registry.workers[2].id
    /\ registry.nextPortOffset = 2

\* C26: a step of cleanup or cleanup --all removes a record only when the
\* worker's directory is gone after the step; a cleanup that fails leaves the
\* state file, records and window hint, as it was; and an iteration of
\* cleanup --all that leaves the directory in place leaves the worker's record
\* in place with every field as it was.
C26_RecordOutlivesItsDirectory ==
    [][/\ \A k \in 1..Len(registry.workers) :
            (\A j \in 1..Len(registryAfter.workers) :
                registryAfter.workers[j].id # registry.workers[k].id)
            => registry.workers[k].directory \notin dirs'
       /\ (pc[1] = "idle" /\ pc'[1] = "exited" /\ out'[1].code = 1)
            => (stateFile' = stateFile /\ registryAfter = registry)
       /\ (pc[1] = "ca_loop" /\ loc[1].workers[loc[1].i].directory \in dirs')
            => \A k \in 1..Len(registry.workers) :
                  registry.workers[k].id = loc[1].workers[loc[1].i].id
                  => \E j \in 1..Len(registryAfter.workers) :
                        registryAfter.workers[j] = registry.workers[k]]_vars

\* C26 witness: a cleanup has failed on a worker whose directory could not be
\* deleted: record and directory are there, and so is the window hint.
C26_FailedCleanupKeepsRecordAndHint ==
    /\ pc[1] = "exited" /\ out[1].code = 1
    /\ Len(registry.workers) = 1
    /\ registry.workers[1].status = "running"
    /\ registry.workers[1].directory \in dirs
    /\ registry.itermWindowId # None

\* C27 as stated: whatever the process has done before, the default state is
\* as it was declared, and a load made while the state file is absent or does
\* not parse returns no workers and nextPortOffset 0.
C27_DefaultStateNeverChanged ==
    ~readable(store(1))
       => /\ DEFAULT_STATE[1] = [workers |-> <<>>, nextPortOffset |-> 0]
          /\ Len(loadState(store(1)).workers) = 0
          /\ loadState(store(1)).nextPortOffset = 0

\* C28: updateWorkerStatus for a name or id that matches no record returns
\* with the state file as it was; and when the record of the worker a spawn is
\* creating is gone at the moment of its status update (another process has
\* cleaned the worker up), the update writes nothing and the registry has no
\* record of that worker after it.
C28_UpdateOfMissingRecordWritesNothing ==
    /\ [](updateWorkerStatus(store(1), "no-such-worker", "running", "w1").file = stateFile)
    /\ [][(/\ pc[1] = "sp_update" /\ pc'[1] # "sp_update"
           /\ \A k \in 1..Len(registry.workers) :
                 /\ registry.workers[k].name # loc[1].workerName
                 /\ registry.workers[k].id # loc[1].workerName)
          => /\ stateFile' = stateFile
             /\ \A k \in 1..Len(registryAfter.workers) :
                   /\ registryAfter.workers[k].name # loc[1].workerName
                   /\ registryAfter.workers[k].id # loc[1].workerId]_vars

\* C28 witness: the spawn has ended without error, its worker has a tab, and
\* the registry, cleaned by the other process in between, holds no record.
C28_SpawnEndedWithoutItsRecord ==
    /\ pc[1] = "exited" /\ out[1].code = 0
    /\ nanoidCount = 1
    /\ Len(iterm.windows) = 1
    /\ Len(registry.workers) = 0
    /\ registry.nextPortOffset = 1

====
